---- MODULE Spec2Model ----
(***************************************************************************)
(* The message relay of network/router.py: a Router that listens on one    *)
(* Endpoint over TCP or UDP and forwards every inbound message to its      *)
(* Connection Set, driven by a caller thread (start, stop, add_connections,*)
(* remove_connections, rebinding of the endpoint) while one background     *)
(* worker thread per start() runs the serve loop.                          *)
(*                                                                         *)
(* Threads are interleaved at the granularity of the statements that touch *)
(* shared state.  Blocking calls (accept, recv, recvfrom, send_message,    *)
(* Thread.join) are single steps whose outcome is chosen by the            *)
(* environment.  join(timeout=2.0) gives up only while the worker sits in  *)
(* a call that can take longer than the timeout.                           *)
(***************************************************************************)
EXTENDS Integers, Sequences, FiniteSets, TLC

----------------------------------------------------------------------------
(* Bounds of the model *)

\* ports of the endpoints in play: 1..NumPorts on one host
NumPorts == 3
\* longest argument list of add_connections / remove_connections, and
\* longest initial connection list given to the constructor
MaxArgs == 2
\* number of start() / stop() calls the caller makes
MaxCalls == 3
\* number of add_connections / remove_connections / endpoint changes
MaxEdits == 2
\* number of start() calls that spawn a worker thread
MaxStarts == 2
\* number of inbound connections / datagrams that arrive
MaxMsgs == 2
\* longest inbound message, in chunks returned by recv
MaxChunks == 2
\* longest text given to parse_message, in characters
MaxText == 6
\* longest text given to send_message, in characters
MaxSend == 2

----------------------------------------------------------------------------
(* Values *)

Host == "127.0.0.1"

Endpoint(ip, p) == [ip_address |-> ip, port |-> p]

Endpoints == {Endpoint(Host, p) : p \in 1..NumPorts}

NoEndpoint == [ip_address |-> "", port |-> 0]

\* the protocol strings a caller may pass to start(); "SCTP" stands for any
\* unsupported one
Protocols == {"TCP", "UDP"}
ProtocolArgs == {"TCP", "UDP", "SCTP"}

SeqsUpTo(S, n) == UNION {[1..k -> S] : k \in 0..n}

\* what travels on the wire: "a" is a byte of valid UTF-8 text, "xFF" a byte
\* that is not valid UTF-8
Bytes == {"a", "xFF"}

\* an inbound message is the sequence of chunks the sender transmits before
\* closing its write side (one byte per chunk)
Payload(k) == [i \in 1..k |-> IF i = 1 THEN "a" ELSE "xFF"]
Messages == {Payload(k) : k \in 0..MaxChunks}

\* bytes.decode('utf-8', errors='replace'): an invalid byte becomes U+FFFD
Decode(bytes) ==
    [i \in 1..Len(bytes) |-> IF bytes[i] = "a" THEN "a" ELSE "U+FFFD"]

\* str.encode('utf-8', errors='strict') of a decoded text: U+FFFD is
\* representable, it travels as its own UTF-8 encoding
Encode(text) ==
    [i \in 1..Len(text) |-> IF text[i] = "a" THEN "a" ELSE "xEFBFBD"]

Workers == 1..MaxStarts

\* The runs explored are those of a workload, a cap on what the caller and
\* the network do.  args is the longest list the caller passes, init the
\* longest list the constructor is given, protos the protocol strings given
\* to start(), len the longest inbound message, peer whether the second
\* Router exists.  Three workloads make the runs of Spec: restarting the
\* router, serving traffic while the Connection Set is edited, and editing
\* the Connection Set alone.
Workloads ==
    { [name |-> "lifecycle", calls |-> MaxCalls, starts |-> MaxStarts,
       edits |-> 0, msgs |-> MaxMsgs - 1, args |-> 0, init |-> 0,
       protos |-> ProtocolArgs, len |-> MaxChunks, peer |-> FALSE],
      [name |-> "serving", calls |-> MaxCalls - 2, starts |-> MaxStarts - 1,
       edits |-> MaxEdits - 1, msgs |-> MaxMsgs, args |-> MaxArgs - 1, init |-> 0,
       protos |-> ProtocolArgs, len |-> MaxChunks, peer |-> FALSE],
      [name |-> "editing", calls |-> 0, starts |-> 0,
       edits |-> MaxEdits, msgs |-> 0, args |-> MaxArgs, init |-> MaxArgs,
       protos |-> ProtocolArgs, len |-> MaxChunks, peer |-> FALSE] }

\* restarting a router under traffic: the runs of OverlapSpec
Overlap ==
    [name |-> "overlap", calls |-> MaxCalls, starts |-> MaxStarts,
     edits |-> 0, msgs |-> MaxMsgs, args |-> 0, init |-> 0,
     protos |-> Protocols, len |-> MaxChunks - 1, peer |-> FALSE]

\* relaying to a second Router: the runs of RelaySpec
Relay ==
    [name |-> "relay", calls |-> MaxCalls - 2, starts |-> MaxStarts - 1,
     edits |-> 0, msgs |-> MaxMsgs - 1, args |-> 0, init |-> MaxArgs - 1,
     protos |-> Protocols, len |-> MaxChunks, peer |-> TRUE]

\* the lists the constructor is given
InitLists(wl) ==
    SeqsUpTo(Endpoints, wl.init)
        \cup {<<Endpoint(Host, 2), Endpoint(Host, NumPorts)>>}

\* a line given to on_log: its kind and what it mentions, and the thread
\* that made the call (0 the caller, w worker w)
LogLine(by, k, e, m, p) ==
    [by |-> by, kind |-> k, ep |-> e, msg |-> m, proto |-> p]

\* a thread not yet started, and the locals of a serve loop
Idle == [pc |-> "unborn", proto |-> "", ep |-> NoEndpoint, server |-> "none",
         conn |-> "none", inbound |-> <<>>, sent |-> <<>>, chunks |-> <<>>,
         message |-> <<>>, conns |-> <<>>, live |-> FALSE, idx |-> 0]

\* the second Router: Router(PeerEndpoint) with an empty Connection Set,
\* its caller thread (caller), its worker thread (pc) and that worker's
\* lines in its log; inbox is what has reached its socket and was not yet
\* accepted / received
PeerEndpoint == Endpoint(Host, 2)

PeerIdle == [is_running |-> FALSE, protocol |-> "", caller |-> "idle",
             pc |-> "unborn", server |-> "none", inbox |-> <<>>,
             inbound |-> <<>>, message |-> <<>>, log |-> <<>>]

\* no call of a helper.py function is under way
NoCall == [fn |-> "none"]

\* no RouterWidget exists
NoWidget == [made |-> FALSE]

----------------------------------------------------------------------------
VARIABLES
    endpoint,           \* Router.endpoint
    connections,        \* Router.connections
    is_running,         \* Router._is_running
    protocol,           \* Router._protocol ("" is None)
    thread,             \* Router._thread: id of the Thread object, 0 is None
    server_socket,      \* Router.server_socket: id of the worker that made it, 0 is None
    active_connection,  \* Router._active_connection: id of the worker that accepted it, 0 is None
    lock,               \* Router._lock: 0 free, -1 held by the caller, w held by worker w
    log,                \* the lines passed to on_log, in order
    workers,            \* per worker thread: position and locals of _worker/_serve_*
    callerPc,           \* position of the caller thread inside start()/stop()
    ret,                \* outcome of the caller's last API call
    workload,           \* the workload of this run
    calls,              \* start() / stop() calls made so far
    edits,              \* Connection Set and endpoint changes made so far
    arrived,            \* inbound connections / datagrams so far
    delivered,          \* what send_message has put on the wire: (to, msg, proto)
    peer,               \* a second Router, listening on PeerEndpoint
    helper,             \* a call of a function of helper.py that is under way
    widget              \* a RouterWidget of interface_2.py driving the Router

vars == <<endpoint, connections, is_running, protocol, thread, server_socket,
          active_connection, lock, log, workers, callerPc, ret, workload,
          calls, edits, arrived, delivered, peer, helper, widget>>

routerVars == <<endpoint, connections, is_running, protocol, thread,
                server_socket, active_connection>>

Spawned == Cardinality({w \in Workers : workers[w].pc # "unborn"})

Alive(w) == workers[w].pc \notin {"unborn", "done"}

\* how an API call ended; arg is the list given to add_connections or
\* remove_connections
Ret(op, res) == [op |-> op, res |-> res, arg |-> <<>>]

----------------------------------------------------------------------------
(* Router.__init__ *)

Setup(wls) ==
    /\ workload \in wls
    /\ endpoint = Endpoint(Host, 1)
    /\ connections \in InitLists(workload)
    /\ is_running = FALSE
    /\ protocol = ""
    /\ thread = 0
    /\ server_socket = 0
    /\ active_connection = 0
    /\ lock = 0
    /\ log = <<>>
    /\ workers = [w \in Workers |-> Idle]
    /\ callerPc = "idle"
    /\ ret = Ret("init", "ok")
    /\ calls = 0
    /\ edits = 0
    /\ arrived = 0
    /\ delivered = {}
    /\ peer = PeerIdle

Init == Setup(Workloads) /\ helper = NoCall /\ widget = NoWidget

----------------------------------------------------------------------------
(* Connection Set mutators and the endpoint attribute: caller thread *)

InSeq(e, s) == \E i \in 1..Len(s) : s[i] = e

NewEndpoints_KeepSelf(endpoints) ==
    LET Keep(e) == ~InSeq(e, connections)
    IN  SelectSeq(endpoints, Keep)

NewEndpoints_Reversed(endpoints) ==
    LET Keep(e) == (~InSeq(e, connections)) /\ (e # endpoint)
        kept == SelectSeq(endpoints, Keep)
    IN  [i \in 1..Len(kept) |-> kept[Len(kept) + 1 - i]]

\* router.py line 54: the endpoints of the argument that are kept
NewEndpoints(endpoints) ==
    LET Keep(e) == (~InSeq(e, connections)) /\ (e # endpoint)
    IN  SelectSeq(endpoints, Keep)

\* router.py line 64: the list remove_connections rebinds connections to
Remaining(endpoints) ==
    LET Keep(e) == ~InSeq(e, endpoints)
    IN  SelectSeq(connections, Keep)

CallerIdle == callerPc = "idle" /\ calls < workload.calls

EditIdle(endpoints) ==
    /\ callerPc = "idle"
    /\ edits < workload.edits
    /\ Len(endpoints) <= workload.args

\* list.extend mutates the list object in place: a worker whose for-loop
\* iterates that same object sees the appended endpoints
AddConnections(endpoints) ==
    /\ EditIdle(endpoints)
    /\ LET new_endpoints == NewEndpoints(endpoints) IN
        /\ log' = IF Len(new_endpoints) # Len(endpoints)
                  THEN Append(log, LogLine(0, "warning", NoEndpoint, <<>>, ""))
                  ELSE log
        /\ connections' = connections \o new_endpoints
        /\ workers' = [w \in Workers |->
                         IF workers[w].live
                         THEN [workers[w] EXCEPT !.conns = connections \o new_endpoints]
                         ELSE workers[w]]
    /\ ret' = [Ret("add_connections", "ok") EXCEPT !.arg = endpoints]
    /\ edits' = edits + 1
    /\ UNCHANGED <<endpoint, is_running, protocol, thread, server_socket,
                   active_connection, lock, callerPc, workload, peer, helper, widget, calls, arrived, delivered>>

RemoveConnections_InPlace(endpoints) ==
    /\ EditIdle(endpoints)
    /\ connections' = Remaining(endpoints)
    /\ workers' = [w \in Workers |->
                     IF workers[w].live
                     THEN [workers[w] EXCEPT !.conns = Remaining(endpoints)]
                     ELSE workers[w]]
    /\ ret' = [Ret("remove_connections", "ok") EXCEPT !.arg = endpoints]
    /\ edits' = edits + 1
    /\ UNCHANGED <<endpoint, is_running, protocol, thread, server_socket,
                   active_connection, lock, log, callerPc, workload, peer,
                   helper, widget, calls, arrived, delivered>>

\* the comprehension builds a new list object: a worker whose for-loop is
\* under way keeps iterating the old object
RemoveConnections(endpoints) ==
    /\ EditIdle(endpoints)
    /\ connections' = Remaining(endpoints)
    /\ workers' = [w \in Workers |-> [workers[w] EXCEPT !.live = FALSE]]
    /\ ret' = [Ret("remove_connections", "ok") EXCEPT !.arg = endpoints]
    /\ edits' = edits + 1
    /\ UNCHANGED <<endpoint, is_running, protocol, thread, server_socket,
                   active_connection, lock, log, callerPc, workload, peer, helper, widget, calls, arrived, delivered>>

\* RouterWidget.on_port_change rebinding router.endpoint to a new port
SetEndpoint(e) ==
    /\ EditIdle(<<e>>)
    /\ e.port # endpoint.port
    /\ endpoint' = e
    /\ ret' = Ret("set_endpoint", "ok")
    /\ edits' = edits + 1
    /\ UNCHANGED <<connections, is_running, protocol, thread, server_socket,
                   active_connection, lock, log, workers, callerPc, workload, peer, helper, widget, calls, arrived,
                   delivered>>

----------------------------------------------------------------------------
(* Router.start *)

StartIsNoop_NoCheck == FALSE

\* lines 73-74
StartIsNoop == is_running

ProtocolSupported_Any(p) == TRUE

\* line 76
ProtocolSupported(p) == p \in {"TCP", "UDP"}

Start(p) ==
    /\ CallerIdle
    /\ p \in workload.protos
    /\ calls' = calls + 1
    /\ IF StartIsNoop
       THEN /\ ret' = Ret("start", "noop")
            /\ UNCHANGED <<routerVars, workers, callerPc>>
       ELSE IF ~ProtocolSupported(p)
       THEN /\ ret' = Ret("start", "ValueError")
            /\ UNCHANGED <<routerVars, workers, callerPc>>
       ELSE /\ Spawned < workload.starts
            /\ protocol' = p
            /\ thread' = Spawned + 1
            /\ is_running' = TRUE
            /\ workers' = [workers EXCEPT ![Spawned + 1].pc = "begin"]
            /\ callerPc' = "start_log"
            /\ ret' = Ret("start", "pending")
            /\ UNCHANGED <<endpoint, connections, server_socket,
                           active_connection>>
    /\ UNCHANGED <<lock, log, workload, peer, helper, widget, edits, arrived, delivered>>

\* line 85, after Thread.start()
StartLog ==
    /\ callerPc = "start_log"
    /\ log' = Append(log, LogLine(0, "started", endpoint, <<>>, protocol))
    /\ callerPc' = "idle"
    /\ ret' = Ret("start", "ok")
    /\ UNCHANGED <<routerVars, lock, workers, workload, peer, helper, widget, calls, edits, arrived, delivered>>

----------------------------------------------------------------------------
(* Router.stop *)

StopIsNoop_NoCheck == FALSE

\* lines 94-95
StopIsNoop == ~is_running

\* the socket objects the handle fields refer to are closed; w's own sockets
\* are workers[w].server and workers[w].conn
CloseHandles(ws, srv, act) ==
    [w \in Workers |->
        [ws[w] EXCEPT !.server = IF w = srv THEN "closed" ELSE @,
                      !.conn   = IF w = act THEN "closed" ELSE @]]

Stop ==
    /\ CallerIdle
    /\ calls' = calls + 1
    /\ IF StopIsNoop
       THEN /\ ret' = Ret("stop", "noop")
            /\ UNCHANGED callerPc
       ELSE /\ ret' = Ret("stop", "pending")
            /\ callerPc' = "stop_lock"
    /\ UNCHANGED <<routerVars, lock, log, workers, workload, peer, helper, widget, edits, arrived, delivered>>

\* line 97: with self._lock
StopAcquire ==
    /\ callerPc = "stop_lock"
    /\ lock = 0
    /\ lock' = -1
    /\ callerPc' = "stop_close"
    /\ UNCHANGED <<routerVars, log, workers, ret, workload, peer, helper, widget, calls, edits, arrived, delivered>>

\* lines 98-116: close and forget both handles, release the lock
StopClose ==
    /\ callerPc = "stop_close"
    /\ workers' = CloseHandles(workers, server_socket, active_connection)
    /\ server_socket' = 0
    /\ active_connection' = 0
    /\ lock' = 0
    /\ callerPc' = "stop_join"
    /\ UNCHANGED <<endpoint, connections, is_running, protocol, thread, log,
                   ret, workload, peer, helper, widget, calls, edits, arrived, delivered>>

\* the calls of the serve loops that may outlast join's two seconds:
\* accept / recvfrom on an open socket, recv on an open connection, and
\* send_message (its own timeout is two seconds per connection)
Blocked(w) ==
    \/ workers[w].pc \in {"accept", "recvfrom"} /\ workers[w].server = "open"
    \/ workers[w].pc = "recv" /\ workers[w].conn = "open"
    \/ workers[w].pc = "forward" /\ workers[w].idx < Len(workers[w].conns)

JoinReturns_NoTimeout == thread = 0 \/ ~Alive(thread)

\* lines 118-119: join returns when the thread has ended or on its timeout
JoinReturns == thread = 0 \/ ~Alive(thread) \/ Blocked(thread)

\* lines 118-122
StopJoin ==
    /\ callerPc = "stop_join"
    /\ JoinReturns
    /\ is_running' = FALSE
    /\ log' = Append(log, LogLine(0, "stopped", NoEndpoint, <<>>, ""))
    /\ callerPc' = "idle"
    /\ ret' = Ret("stop", "ok")
    /\ UNCHANGED <<endpoint, connections, protocol, thread, server_socket,
                   active_connection, lock, workers, workload, peer, helper, widget, calls, edits, arrived, delivered>>

----------------------------------------------------------------------------
(* Router._worker, _serve_tcp, _serve_udp: worker thread w *)

WorkerStep(w, r) == workers' = [workers EXCEPT ![w] = r]

\* bind fails when another open socket of the same protocol is bound to
\* the address
AddressInUse(e, p) ==
    \E v \in Workers : /\ workers[v].server = "open"
                       /\ workers[v].ep = e
                       /\ workers[v].proto = p

\* _worker lines 129-132 and the socket set-up of the serve loop
\* (157-160, 222-223); a failing bind raises into _worker's finally
Begin(w) ==
    /\ workers[w].pc = "begin"
    /\ LET p == IF protocol = "TCP" THEN "TCP" ELSE "UDP" IN
        IF AddressInUse(endpoint, p)
        THEN WorkerStep(w, [workers[w] EXCEPT !.pc = "cleanup_lock",
                                              !.proto = p])
        ELSE WorkerStep(w, [workers[w] EXCEPT !.pc = "reg_lock", !.proto = p,
                                              !.ep = endpoint,
                                              !.server = "open"])
    /\ UNCHANGED <<routerVars, lock, log, callerPc, ret, workload, peer, helper, widget, calls, edits, arrived,
                   delivered>>

\* the four "with self._lock" of the worker: 162/225, 171, 210, 136
AfterLock(pc) ==
    CASE pc = "reg_lock" -> "reg_set"
      [] pc = "act_lock" -> "act_set"
      [] pc = "fin_lock" -> "fin_close"
      [] pc = "cleanup_lock" -> "cleanup"

WorkerAcquire(w) ==
    /\ workers[w].pc \in {"reg_lock", "act_lock", "fin_lock", "cleanup_lock"}
    /\ lock = 0
    /\ lock' = w
    /\ WorkerStep(w, [workers[w] EXCEPT !.pc = AfterLock(workers[w].pc)])
    /\ UNCHANGED <<routerVars, log, callerPc, ret, workload, peer, helper, widget, calls, edits, arrived, delivered>>

Register_KeepLock(w) ==
    /\ workers[w].pc = "reg_set"
    /\ server_socket' = w
    /\ WorkerStep(w, [workers[w] EXCEPT
            !.pc = IF workers[w].proto = "TCP" THEN "accept" ELSE "recvfrom"])
    /\ UNCHANGED <<endpoint, connections, is_running, protocol, thread,
                   active_connection, lock, log, callerPc, ret, workload, peer,
                   helper, widget, calls, edits, arrived, delivered>>

\* lines 162-163, 225-226
Register(w) ==
    /\ workers[w].pc = "reg_set"
    /\ server_socket' = w
    /\ lock' = 0
    /\ WorkerStep(w, [workers[w] EXCEPT
            !.pc = IF workers[w].proto = "TCP" THEN "accept" ELSE "recvfrom"])
    /\ UNCHANGED <<endpoint, connections, is_running, protocol, thread,
                   active_connection, log, callerPc, ret, workload, peer, helper, widget, calls, edits, arrived,
                   delivered>>

\* lines 166-167: a client connects and will transmit m, then close
Accept(w, m) ==
    /\ workers[w].pc = "accept"
    /\ workers[w].server = "open"
    /\ arrived < workload.msgs
    /\ Len(m) <= workload.len
    /\ arrived' = arrived + 1
    /\ WorkerStep(w, [workers[w] EXCEPT !.pc = "act_lock", !.conn = "open",
                                        !.inbound = m, !.sent = m,
                                        !.chunks = <<>>])
    /\ UNCHANGED <<routerVars, lock, log, callerPc, ret, workload, peer, helper, widget, calls, edits, delivered>>

\* lines 168-169: accept on a closed socket raises OSError, the loop ends
AcceptFails(w) ==
    /\ workers[w].pc = "accept"
    /\ workers[w].server # "open"
    /\ WorkerStep(w, [workers[w] EXCEPT !.pc = "cleanup_lock"])
    /\ UNCHANGED <<routerVars, lock, log, callerPc, ret, workload, peer, helper, widget, calls, edits, arrived,
                   delivered>>

\* lines 171-172
SetActive(w) ==
    /\ workers[w].pc = "act_set"
    /\ active_connection' = w
    /\ lock' = 0
    /\ WorkerStep(w, [workers[w] EXCEPT !.pc = "recv"])
    /\ UNCHANGED <<endpoint, connections, is_running, protocol, thread,
                   server_socket, log, callerPc, ret, workload, peer, helper, widget, calls, edits, arrived,
                   delivered>>

\* lines 177-180: what one connection.recv yields; empty on end of stream
\* and on OSError (the connection was closed under the worker)
RecvData(w) ==
    IF workers[w].conn # "open" THEN <<>>
    ELSE IF workers[w].inbound # <<>> THEN <<Head(workers[w].inbound)>>
    ELSE <<>>

Recv_NoSkip(w) ==
    /\ workers[w].pc = "recv"
    /\ LET data == RecvData(w) IN
        IF data # <<>>
        THEN WorkerStep(w, [workers[w] EXCEPT
                                !.chunks = @ \o data,
                                !.inbound = Tail(@)])
        ELSE WorkerStep(w, [workers[w] EXCEPT
                                !.pc = "received",
                                !.message = Decode(workers[w].chunks)])
    /\ UNCHANGED <<routerVars, lock, log, callerPc, ret, workload, peer, helper, widget,
                   calls, edits, arrived, delivered>>

\* lines 176-190: one pass of the read loop, and what follows its break
Recv(w) ==
    /\ workers[w].pc = "recv"
    /\ LET data == RecvData(w) IN
        IF data # <<>>
        THEN WorkerStep(w, [workers[w] EXCEPT
                                !.chunks = @ \o data,
                                !.inbound = Tail(@)])
        ELSE IF workers[w].chunks = <<>>
        THEN WorkerStep(w, [workers[w] EXCEPT !.pc = "fin_lock"])
        ELSE WorkerStep(w, [workers[w] EXCEPT
                                !.pc = "received",
                                !.message = Decode(workers[w].chunks)])
    /\ UNCHANGED <<routerVars, lock, log, callerPc, ret, workload, peer, helper, widget, calls, edits, arrived,
                   delivered>>

\* lines 229-234: one datagram m arrives
RecvFrom(w, m) ==
    /\ workers[w].pc = "recvfrom"
    /\ workers[w].server = "open"
    /\ arrived < workload.msgs
    /\ Len(m) <= workload.len
    /\ arrived' = arrived + 1
    /\ WorkerStep(w, [workers[w] EXCEPT !.pc = "received", !.sent = m,
                                        !.message = Decode(m)])
    /\ UNCHANGED <<routerVars, lock, log, callerPc, ret, workload, peer, helper, widget, calls, edits, delivered>>

\* lines 231-232
RecvFromFails(w) ==
    /\ workers[w].pc = "recvfrom"
    /\ workers[w].server # "open"
    /\ WorkerStep(w, [workers[w] EXCEPT !.pc = "cleanup_lock"])
    /\ UNCHANGED <<routerVars, lock, log, callerPc, ret, workload, peer, helper, widget, calls, edits, arrived,
                   delivered>>

Received_Silent(w) ==
    /\ workers[w].pc = "received"
    /\ WorkerStep(w, [workers[w] EXCEPT !.pc = "forward",
                                        !.conns = connections,
                                        !.live = TRUE, !.idx = 0])
    /\ UNCHANGED <<routerVars, lock, log, callerPc, ret, workload, peer, helper, widget,
                   calls, edits, arrived, delivered>>

\* lines 191-193, 235-237: the log line, then the for statement takes an
\* iterator over the list object connections refers to at that moment
Received(w) ==
    /\ workers[w].pc = "received"
    /\ log' = Append(log, LogLine(w, "received", NoEndpoint, workers[w].message, ""))
    /\ WorkerStep(w, [workers[w] EXCEPT !.pc = "forward",
                                        !.conns = connections,
                                        !.live = TRUE, !.idx = 0])
    /\ UNCHANGED <<routerVars, lock, callerPc, ret, workload, peer, helper, widget, calls, edits, arrived, delivered>>

ForwardProtocol_AlwaysTcp == "TCP"

\* lines 198, 242
ForwardProtocol == IF protocol = "" THEN "TCP" ELSE protocol

AfterSend_Uncaught(w, ok) ==
    IF ok THEN [workers[w] EXCEPT !.idx = @ + 1]
    ELSE [workers[w] EXCEPT !.pc = "cleanup_lock"]

\* lines 204-207, 249-252: an exception of send_message is caught and the
\* loop goes on with the next endpoint
AfterSend(w, ok) == [workers[w] EXCEPT !.idx = @ + 1]

\* the second Router has bound a socket of protocol p to PeerEndpoint (and,
\* for TCP, listens on it)
PeerListens(p) == peer.server = "open" /\ peer.protocol = p

\* helper.py lines 25-47: whether send_message(e, p) can return (ok) or
\* raise (~ok).  Towards the second Router a TCP connect succeeds exactly
\* when a TCP socket listens there, and a UDP sendto always returns; of the
\* other endpoints nothing is known
SendCanBe(e, p, ok) ==
    (workload.peer /\ e = PeerEndpoint) =>
        (ok <=> (p = "UDP" \/ PeerListens("TCP")))

\* the bytes reach the second Router's socket
Arrives(e, p, ok) ==
    workload.peer /\ e = PeerEndpoint /\ ok /\ PeerListens(p)

\* lines 193-207, 237-252: one pass of the for loop; ok is whether
\* send_message returned or raised
Forward(w, ok) ==
    /\ workers[w].pc = "forward"
    /\ workers[w].idx < Len(workers[w].conns)
    /\ LET e == workers[w].conns[workers[w].idx + 1] IN
        /\ SendCanBe(e, ForwardProtocol, ok)
        /\ peer' = IF Arrives(e, ForwardProtocol, ok)
                   THEN [peer EXCEPT !.inbox = Append(@, Encode(workers[w].message))]
                   ELSE peer
        /\ delivered' = IF ok
                        THEN delivered \cup {[to |-> e,
                                              msg |-> Encode(workers[w].message),
                                              proto |-> ForwardProtocol]}
                        ELSE delivered
        /\ log' = Append(log, LogLine(w, IF ok THEN "forwarded" ELSE "failed",
                                      e, <<>>, ""))
    /\ WorkerStep(w, AfterSend(w, ok))
    /\ UNCHANGED <<routerVars, lock, callerPc, ret, workload, calls, edits, arrived,
                   helper, widget>>

\* the iterator is exhausted: the TCP loop goes to its finally (209), the
\* UDP loop to the next recvfrom
ForwardDone(w) ==
    /\ workers[w].pc = "forward"
    /\ workers[w].idx >= Len(workers[w].conns)
    /\ WorkerStep(w, [workers[w] EXCEPT
            !.pc = IF workers[w].proto = "TCP" THEN "fin_lock" ELSE "recvfrom",
            !.conns = <<>>, !.live = FALSE, !.idx = 0,
            !.message = <<>>, !.sent = <<>>])
    /\ UNCHANGED <<routerVars, lock, log, callerPc, ret, workload, peer, helper, widget, calls, edits, arrived,
                   delivered>>

\* lines 209-216
FinClose(w) ==
    /\ workers[w].pc = "fin_close"
    /\ active_connection' = 0
    /\ lock' = 0
    /\ WorkerStep(w, [workers[w] EXCEPT !.pc = "accept", !.conn = "none",
                                        !.inbound = <<>>, !.sent = <<>>,
                                        !.chunks = <<>>])
    /\ UNCHANGED <<endpoint, connections, is_running, protocol, thread,
                   server_socket, log, callerPc, ret, workload, peer, helper, widget, calls, edits, arrived,
                   delivered>>

\* lines 134-153: _worker's finally
Cleanup(w) ==
    /\ workers[w].pc = "cleanup"
    /\ workers' = [CloseHandles(workers, server_socket, active_connection)
                      EXCEPT ![w].pc = "done"]
    /\ server_socket' = 0
    /\ active_connection' = 0
    /\ lock' = 0
    /\ UNCHANGED <<endpoint, connections, is_running, protocol, thread, log,
                   callerPc, ret, workload, peer, helper, widget, calls, edits, arrived, delivered>>

----------------------------------------------------------------------------
(* The second Router: start() and its serve loop, with no Connection Set   *)
(* and no stop(), so that its lock is never contended and its for loop has *)
(* nothing to visit                                                        *)

routerFrame == <<routerVars, lock, log, workers, callerPc, ret, workload,
                 calls, edits, arrived, delivered, helper, widget>>

\* lines 73-83
PeerStart(p) ==
    /\ workload.peer
    /\ ~peer.is_running
    /\ peer.caller = "idle"
    /\ ProtocolSupported(p)
    /\ peer' = [peer EXCEPT !.protocol = p, !.is_running = TRUE,
                            !.pc = "begin", !.caller = "start_log"]
    /\ UNCHANGED routerFrame

\* line 85: the caller thread's line is not kept in peer.log
PeerStartLog ==
    /\ peer.caller = "start_log"
    /\ peer' = [peer EXCEPT !.caller = "idle"]
    /\ UNCHANGED routerFrame

\* lines 129-132 and 157-163 / 222-226
PeerBegin ==
    /\ peer.pc = "begin"
    /\ peer' = [peer EXCEPT !.server = "open",
                            !.pc = IF peer.protocol = "TCP" THEN "accept"
                                   ELSE "recvfrom"]
    /\ UNCHANGED routerFrame

\* lines 166-172
PeerAccept ==
    /\ peer.pc = "accept"
    /\ peer.inbox # <<>>
    /\ peer' = [peer EXCEPT !.inbound = Head(peer.inbox),
                            !.inbox = Tail(peer.inbox), !.pc = "recv"]
    /\ UNCHANGED routerFrame

\* lines 174-190 and, when nothing was read, 209-216: the sender has
\* written everything and closed, the read loop collects all of it
PeerRecv ==
    /\ peer.pc = "recv"
    /\ peer' = IF peer.inbound = <<>>
               THEN [peer EXCEPT !.pc = "accept"]
               ELSE [peer EXCEPT !.pc = "received", !.inbound = <<>>,
                                 !.message = Decode(peer.inbound)]
    /\ UNCHANGED routerFrame

\* lines 229-234
PeerRecvFrom ==
    /\ peer.pc = "recvfrom"
    /\ peer.inbox # <<>>
    /\ peer' = [peer EXCEPT !.message = Decode(Head(peer.inbox)),
                            !.inbox = Tail(peer.inbox), !.pc = "received"]
    /\ UNCHANGED routerFrame

\* lines 191-216, 235-252: the log line, the for loop over no connections
\* and, for TCP, the finally that closes the connection
PeerReceived ==
    /\ peer.pc = "received"
    /\ peer' = [peer EXCEPT
                  !.log = Append(@, LogLine(1, "received", NoEndpoint,
                                            peer.message, "")),
                  !.message = <<>>,
                  !.pc = IF peer.protocol = "TCP" THEN "accept" ELSE "recvfrom"]
    /\ UNCHANGED routerFrame

PeerRuns ==
    \/ PeerBegin
    \/ PeerAccept
    \/ PeerRecv
    \/ PeerRecvFrom
    \/ PeerReceived

Peer ==
    \/ \E p \in ProtocolArgs : PeerStart(p)
    \/ PeerStartLog
    \/ PeerRuns

----------------------------------------------------------------------------
(* The system *)

Lifecycle ==
    \/ \E p \in ProtocolArgs : Start(p)
    \/ StartLog
    \/ Stop
    \/ StopAcquire
    \/ StopClose
    \/ StopJoin

Caller ==
    \/ Lifecycle
    \/ \E endpoints \in SeqsUpTo(Endpoints, MaxArgs) : AddConnections(endpoints)
    \/ \E endpoints \in SeqsUpTo(Endpoints, MaxArgs) : RemoveConnections(endpoints)
    \/ \E e \in Endpoints : SetEndpoint(e)

Worker(w) ==
    \/ Begin(w)
    \/ WorkerAcquire(w)
    \/ Register(w)
    \/ \E m \in Messages : Accept(w, m)
    \/ AcceptFails(w)
    \/ SetActive(w)
    \/ Recv(w)
    \/ \E m \in Messages : RecvFrom(w, m)
    \/ RecvFromFails(w)
    \/ Received(w)
    \/ \E ok \in BOOLEAN : Forward(w, ok)
    \/ ForwardDone(w)
    \/ FinClose(w)
    \/ Cleanup(w)

Next == Caller \/ \E w \in Workers : Worker(w)

Spec == Init /\ [][Next]_vars

\* the steps a worker takes on its own once scheduled; accept and recvfrom
\* on an open socket wait for the network and are not among them
WorkerRuns(w) ==
    \/ Begin(w)
    \/ WorkerAcquire(w)
    \/ Register(w)
    \/ AcceptFails(w)
    \/ SetActive(w)
    \/ Recv(w)
    \/ RecvFromFails(w)
    \/ Received(w)
    \/ \E ok \in BOOLEAN : Forward(w, ok)
    \/ ForwardDone(w)
    \/ FinClose(w)
    \/ Cleanup(w)

\* threads that can run are scheduled: the caller inside stop() and every
\* worker thread
Fairness ==
    /\ WF_vars(StopAcquire)
    /\ WF_vars(StopClose)
    /\ WF_vars(StopJoin)
    /\ \A w \in Workers : WF_vars(WorkerRuns(w))

FairSpec == Spec /\ Fairness

\* a Router restarted under traffic, its Connection Set left alone
OverlapNext == Lifecycle \/ \E w \in Workers : Worker(w)

OverlapSpec ==
    Setup({Overlap}) /\ helper = NoCall /\ widget = NoWidget /\ [][OverlapNext]_vars

\* two Routers, each started once and never stopped: the steps of a serve
\* loop whose sockets nobody closes
Serve(w) ==
    \/ Begin(w)
    \/ WorkerAcquire(w)
    \/ Register(w)
    \/ \E m \in Messages : Accept(w, m)
    \/ SetActive(w)
    \/ Recv(w)
    \/ \E m \in Messages : RecvFrom(w, m)
    \/ Received(w)
    \/ \E ok \in BOOLEAN : Forward(w, ok)
    \/ ForwardDone(w)
    \/ FinClose(w)

RelayNext ==
    \/ \E p \in ProtocolArgs : Start(p)
    \/ StartLog
    \/ \E w \in Workers : Serve(w)
    \/ Peer

RelaySpec ==
    /\ Setup({Relay})
    /\ helper = NoCall
    /\ widget = NoWidget
    /\ [][RelayNext]_vars
    /\ \A w \in Workers : WF_vars(WorkerRuns(w))
    /\ WF_vars(PeerRuns)

----------------------------------------------------------------------------
(* helper.py: Endpoint, parse_message                                      *)

helperFrame == <<routerVars, lock, log, workers, callerPc, ret, workload,
                 calls, edits, arrived, delivered, peer, widget>>

\* no Router activity: the calls of helper.py are looked at on their own
Quiet ==
    [name |-> "quiet", calls |-> 0, starts |-> 0, edits |-> 0, msgs |-> 0,
     args |-> 0, init |-> 0, protos |-> {}, len |-> 0, peer |-> FALSE]

\* arguments given to Endpoint(ip_address, port)
HostArgs == {Host, "localhost"}
PortArgs == {-1, 0, 1, 2, 65535, 65536}

\* the __init__ the dataclass decorator generates stores its two arguments
\* and raises nothing
NewEndpoint(ip, p) == [raised |-> "", value |-> Endpoint(ip, p)]

\* the __eq__ the dataclass decorator generates compares the field tuples
EndpointEq(a, b) == <<a.ip_address, a.port>> = <<b.ip_address, b.port>>

EndpointCalls ==
    { [fn |-> "Endpoint", pc |-> "call", ip |-> h1, port |-> p1,
       ip2 |-> h2, port2 |-> p2]
        : h1 \in HostArgs, p1 \in PortArgs, h2 \in HostArgs, p2 \in PortArgs }

\* two Endpoint(...) expressions and their comparison with ==
EndpointCall ==
    /\ helper.fn = "Endpoint"
    /\ helper.pc = "call"
    /\ LET first  == NewEndpoint(helper.ip, helper.port)
           second == NewEndpoint(helper.ip2, helper.port2)
       IN  helper' = [fn |-> "Endpoint", pc |-> "done",
                      ip |-> helper.ip, port |-> helper.port,
                      ip2 |-> helper.ip2, port2 |-> helper.port2,
                      first |-> first, second |-> second,
                      equal |-> EndpointEq(first.value, second.value)]
    /\ UNCHANGED helperFrame

\* the characters of the texts given to parse_message: "h" a letter, "1" a
\* digit
Chars == {"[", "]", ":", " ", "h", "1"}

RECURSIVE LStrip(_)
\* str.lstrip()
LStrip(t) == IF t # <<>> /\ Head(t) = " " THEN LStrip(Tail(t)) ELSE t

RECURSIVE RStrip(_)
RStrip(t) ==
    IF t # <<>> /\ t[Len(t)] = " " THEN RStrip(SubSeq(t, 1, Len(t) - 1)) ELSE t

\* str.strip()
Strip(t) == LStrip(RStrip(t))

\* position of the first c in t, 0 when there is none (c in t, and the cut
\* of str.split(c, maxsplit=1))
Find(t, c) ==
    IF \E i \in 1..Len(t) : t[i] = c
    THEN CHOOSE i \in 1..Len(t) : t[i] = c /\ \A j \in 1..(i - 1) : t[j] # c
    ELSE 0

\* whether int(t) returns: t, its surrounding whitespace dropped, is a
\* non-empty run of digits
IsInt(t) ==
    LET d == Strip(t) IN d # <<>> /\ \A i \in 1..Len(d) : d[i] = "1"

RECURSIVE IntOf(_)
\* int(t) of a run of digits
IntOf(d) ==
    IF d = <<>> THEN 0 ELSE 10 * IntOf(SubSeq(d, 1, Len(d) - 1)) + 1

Raised(what) ==
    [raised |-> what, ip_address |-> <<>>, port |-> 0, payload |-> <<>>]

\* helper.py lines 127-138
parse_message(text0) ==
    LET text == Strip(text0) IN
    IF text = <<>> \/ Head(text) # "[" \/ Find(text, "]") = 0
    THEN Raised("ValueError: Invalid message format")
    ELSE
      LET k       == Find(text, "]")
          header  == SubSeq(text, 2, k - 1)
          payload == SubSeq(text, k + 1, Len(text))
      IN
      IF Find(header, ":") = 0
      THEN Raised("ValueError: Invalid header (missing colon)")
      ELSE
        LET c          == Find(header, ":")
            ip_address == Strip(SubSeq(header, 1, c - 1))
            port_str   == SubSeq(header, c + 1, Len(header))
        IN
        IF ~IsInt(port_str)
        THEN Raised("ValueError: invalid literal for int()")
        ELSE [raised |-> "", ip_address |-> ip_address,
              port |-> IntOf(Strip(port_str)), payload |-> LStrip(payload)]

ParseCalls ==
    { [fn |-> "parse_message", pc |-> "call", text |-> t]
        : t \in SeqsUpTo(Chars, MaxText) }

ParseCall ==
    /\ helper.fn = "parse_message"
    /\ helper.pc = "call"
    /\ helper' = [fn |-> "parse_message", pc |-> "done", text |-> helper.text,
                  result |-> parse_message(helper.text)]
    /\ UNCHANGED helperFrame

----------------------------------------------------------------------------
(* helper.py: send_message and listen_for_message over TCP, one call of    *)
(* each running side by side                                               *)

\* characters of the texts given to send_message: a letter of one byte, one
\* of two bytes, the replacement character, and a lone surrogate, which
\* str.encode('utf-8', errors='strict') rejects
TextChars == {"U+0061", "U+00E9", "U+FFFD", "U+DC80"}

Utf8(c) ==
    CASE c = "U+0061" -> <<"x61">>
      [] c = "U+00E9" -> <<"xC3", "xA9">>
      [] c = "U+FFFD" -> <<"xEF", "xBF", "xBD">>

Encodable(text) == \A i \in 1..Len(text) : text[i] # "U+DC80"

RECURSIVE EncodeStrict(_)
\* message.encode('utf-8', errors='strict') of an encodable text
EncodeStrict(text) ==
    IF text = <<>> THEN <<>>
    ELSE Utf8(Head(text)) \o EncodeStrict(Tail(text))

\* whether bytes b starts with the bytes p
StartsWith(b, p) == Len(b) >= Len(p) /\ SubSeq(b, 1, Len(p)) = p

RECURSIVE DecodeReplace(_)
\* bytes.decode('utf-8', errors='replace'): a byte sequence that is no
\* character becomes U+FFFD, one for each maximal ill-formed part
DecodeReplace(b) ==
    IF b = <<>> THEN <<>>
    ELSE IF StartsWith(b, Utf8("U+0061"))
    THEN <<"U+0061">> \o DecodeReplace(SubSeq(b, 2, Len(b)))
    ELSE IF StartsWith(b, Utf8("U+00E9"))
    THEN <<"U+00E9">> \o DecodeReplace(SubSeq(b, 3, Len(b)))
    ELSE IF StartsWith(b, Utf8("U+FFFD"))
    THEN <<"U+FFFD">> \o DecodeReplace(SubSeq(b, 4, Len(b)))
    ELSE IF StartsWith(b, <<"xEF", "xBF">>)
    THEN <<"U+FFFD">> \o DecodeReplace(SubSeq(b, 3, Len(b)))
    ELSE <<"U+FFFD">> \o DecodeReplace(SubSeq(b, 2, Len(b)))

RECURSIVE Join(_)
\* b''.join(chunks)
Join(chunks) ==
    IF chunks = <<>> THEN <<>> ELSE Head(chunks) \o Join(Tail(chunks))

RECURSIVE ListenResult_PerChunk(_)
ListenResult_PerChunk(chunks) ==
    IF chunks = <<>> THEN <<>>
    ELSE DecodeReplace(Head(chunks)) \o ListenResult_PerChunk(Tail(chunks))

\* helper.py line 93
ListenResult(chunks) == DecodeReplace(Join(chunks))

\* send_message(text, E, 'TCP') and listen_for_message(E, 'TCP',
\* timeout_seconds) started side by side; timed says whether
\* timeout_seconds is a number.  wire holds the bytes written and not yet
\* read, eof says the sender's side of the stream is closed
RoundTrips ==
    { [fn |-> "round_trip", text |-> t, timed |-> d, sender |-> "start",
       listener |-> "start", wire |-> <<>>, eof |-> FALSE, chunks |-> <<>>,
       returned |-> <<>>, raised |-> ""]
        : t \in SeqsUpTo(TextChars, MaxSend), d \in BOOLEAN }

InRoundTrip == helper.fn = "round_trip"

\* lines 68-74: socket, bind, listen
ListenBind ==
    /\ InRoundTrip
    /\ helper.listener = "start"
    /\ helper' = [helper EXCEPT !.listener = "accept"]
    /\ UNCHANGED helperFrame

\* lines 26-30: connect succeeds when the listener's socket listens (the
\* connection then waits in its backlog), and raises otherwise; the finally
\* of line 37 closes the socket
SendConnect ==
    /\ InRoundTrip
    /\ helper.sender = "start"
    /\ helper' = IF helper.listener = "accept"
                 THEN [helper EXCEPT !.sender = "connected"]
                 ELSE [helper EXCEPT !.sender = "raised",
                                     !.raised = "ConnectionRefusedError"]
    /\ UNCHANGED helperFrame

\* line 31: encode, then sendall; a text that cannot be encoded raises, and
\* the finally of line 37 closes the socket
SendAll ==
    /\ InRoundTrip
    /\ helper.sender = "connected"
    /\ helper' = IF Encodable(helper.text)
                 THEN [helper EXCEPT !.sender = "sent",
                                     !.wire = @ \o EncodeStrict(helper.text)]
                 ELSE [helper EXCEPT !.sender = "raised", !.eof = TRUE,
                                     !.raised = "UnicodeEncodeError"]
    /\ UNCHANGED helperFrame

\* lines 32-37: shutdown(SHUT_WR), close
SendShutdown ==
    /\ InRoundTrip
    /\ helper.sender = "sent"
    /\ helper' = [helper EXCEPT !.sender = "done", !.eof = TRUE]
    /\ UNCHANGED helperFrame

\* lines 76-77: accept returns once the sender has connected
ListenAccept ==
    /\ InRoundTrip
    /\ helper.listener = "accept"
    /\ helper.sender \notin {"start", "raised"} \/ helper.raised = "UnicodeEncodeError"
    /\ helper' = [helper EXCEPT !.listener = "recv"]
    /\ UNCHANGED helperFrame

\* lines 78-79: with a timeout, accept gives up while nobody has connected
ListenAcceptTimeout ==
    /\ InRoundTrip
    /\ helper.listener = "accept"
    /\ helper.timed
    /\ helper.sender = "start" \/ helper.raised = "ConnectionRefusedError"
    /\ helper' = [helper EXCEPT !.listener = "done", !.returned = <<"None">>]
    /\ UNCHANGED helperFrame

\* lines 85-92: recv returns the next n bytes of the stream
ListenRecv(n) ==
    /\ InRoundTrip
    /\ helper.listener = "recv"
    /\ n \in 1..Len(helper.wire)
    /\ helper' = [helper EXCEPT
                    !.chunks = Append(@, SubSeq(helper.wire, 1, n)),
                    !.wire = SubSeq(helper.wire, n + 1, Len(helper.wire))]
    /\ UNCHANGED helperFrame

\* lines 90-97: recv returns b'' at the end of the stream, the loop breaks
\* and the text is returned
ListenReturn ==
    /\ InRoundTrip
    /\ helper.listener = "recv"
    /\ helper.wire = <<>>
    /\ helper.eof
    /\ helper' = [helper EXCEPT !.listener = "done",
                                !.returned = <<"text", ListenResult(helper.chunks)>>]
    /\ UNCHANGED helperFrame

\* lines 88-89: with a timeout, recv gives up while the stream is silent
ListenRecvTimeout ==
    /\ InRoundTrip
    /\ helper.listener = "recv"
    /\ helper.timed
    /\ helper.wire = <<>>
    /\ ~helper.eof
    /\ helper' = [helper EXCEPT !.listener = "done", !.returned = <<"None">>]
    /\ UNCHANGED helperFrame

RoundTrip ==
    \/ ListenBind
    \/ SendConnect
    \/ SendAll
    \/ SendShutdown
    \/ ListenAccept
    \/ ListenAcceptTimeout
    \/ \E n \in 1..(3 * MaxSend) : ListenRecv(n)
    \/ ListenReturn
    \/ ListenRecvTimeout

HelperCalls == EndpointCalls \cup ParseCalls \cup RoundTrips

HelperNext ==
    \/ EndpointCall
    \/ ParseCall
    \/ RoundTrip

HelperSpec ==
    /\ Setup({Quiet})
    /\ connections = <<>>
    /\ helper \in HelperCalls
    /\ widget = NoWidget
    /\ [][HelperNext]_vars

----------------------------------------------------------------------------
(* interface_2.py: a RouterWidget and the Router it constructs and drives, *)
(* the Router left stopped                                                  *)

widgetFrame == <<endpoint, is_running, protocol, thread, server_socket,
                 active_connection, lock, log, workers, callerPc, ret,
                 workload, calls, edits, arrived, delivered, peer, helper>>

\* the runs of WidgetSpec: the lists a RouterWidget is constructed with
Widgets ==
    [name |-> "widget", calls |-> 0, starts |-> 0, edits |-> 0, msgs |-> 0,
     args |-> 0, init |-> MaxArgs - 1, protos |-> {}, len |-> 0, peer |-> FALSE]

\* what the user has typed into the IP and Port inputs of the widget; a
\* port that int() accepts has numeric TRUE
IpInputs == {"", Host}
PortInputs ==
    {[given |-> FALSE, numeric |-> FALSE, value |-> 0],
     [given |-> TRUE, numeric |-> FALSE, value |-> 0]}
        \cup {[given |-> TRUE, numeric |-> TRUE, value |-> n]
                  : n \in (0..NumPorts) \cup {65536}}

\* the line last put on the widget's log queue
Said(kind, eps) == [kind |-> kind, eps |-> eps]

\* the table row key of an endpoint, line 311: f"{ip_address}:{port}"
Key(e) == <<e.ip_address, e.port>>

\* interface_2.py lines 78-90: the widget keeps list(connections) and hands
\* that list to Router.__init__, which keeps a copy of it (router.py line 30)
NewWidget(conns) ==
    [made |-> TRUE, connections |-> conns, selected |-> {},
     said |-> Said("", <<>>)]

\* the methods of class Router (router.py lines 51, 62, 68, 89)
RouterMethods == {"add_connections", "remove_connections", "start", "stop"}

\* the Connection Set after self.router.<name>(arg) inside try / except
\* Exception: pass; a name that Router does not have raises AttributeError,
\* which is swallowed
RouterCall(name, arg) ==
    IF name \notin RouterMethods THEN connections
    ELSE IF name = "add_connections" THEN connections \o NewEndpoints(arg)
    ELSE IF name = "remove_connections" THEN Remaining(arg)
    ELSE connections

\* interface_2.py lines 214-241; line 235 calls self.router.add_connection
\* with the new Endpoint
OnAddConnection(ip, port) ==
    /\ widget.made
    /\ IF ip = "" \/ ~port.given
       THEN /\ widget' = [widget EXCEPT !.said = Said("required", <<>>)]
            /\ UNCHANGED connections
       ELSE IF ~port.numeric \/ port.value \notin 1..65535
       THEN /\ widget' = [widget EXCEPT !.said = Said("bad_port", <<>>)]
            /\ UNCHANGED connections
       ELSE IF InSeq(Endpoint(ip, port.value), widget.connections)
       THEN /\ widget' = [widget EXCEPT !.said = Said("exists", <<>>)]
            /\ UNCHANGED connections
       ELSE LET new_ep == Endpoint(ip, port.value) IN
            /\ widget' = [widget EXCEPT
                            !.connections = Append(@, new_ep),
                            !.said = Said("added", <<new_ep>>)]
            /\ connections' = RouterCall("add_connection", new_ep)
    /\ UNCHANGED widgetFrame

\* interface_2.py lines 283-301: the selection of the table
OnTableSelection(keys) ==
    /\ widget.made
    /\ widget.selected # keys
    /\ widget' = [widget EXCEPT !.selected = keys]
    /\ UNCHANGED <<connections, widgetFrame>>

\* interface_2.py lines 304-329; line 321 calls
\* self.router.remove_connection with the list of removed Endpoints
OnRemoveSelected ==
    /\ widget.made
    /\ LET Sel(c) == Key(c) \in widget.selected
           Rest(c) == Key(c) \notin widget.selected
           to_remove == SelectSeq(widget.connections, Sel)
           remaining == SelectSeq(widget.connections, Rest)
       IN  IF widget.selected = {}
           THEN /\ widget' = [widget EXCEPT !.said = Said("none_selected", <<>>)]
                /\ UNCHANGED connections
           ELSE IF to_remove = <<>>
           THEN /\ widget' = [widget EXCEPT !.said = Said("no_match", <<>>)]
                /\ UNCHANGED connections
           ELSE /\ widget' = [widget EXCEPT
                                !.connections = remaining,
                                !.selected = {},
                                !.said = Said("removed", to_remove)]
                /\ connections' = RouterCall("remove_connection", to_remove)
    /\ UNCHANGED widgetFrame

WidgetNext ==
    \/ \E ip \in IpInputs, port \in PortInputs : OnAddConnection(ip, port)
    \/ \E keys \in SUBSET {Key(e) : e \in Endpoints} : OnTableSelection(keys)
    \/ OnRemoveSelected

WidgetSpec ==
    /\ Setup({Widgets})
    /\ helper = NoCall
    /\ widget = NewWidget(connections)
    /\ [][WidgetNext]_vars

----------------------------------------------------------------------------
(* Properties *)

\* number of lines of one kind in the log
Count(kind) == Cardinality({i \in 1..Len(log) : log[i].kind = kind})

AliveWorkers == {w \in Workers : Alive(w)}

\* C1: a start() call made while the Router is Running changes nothing: no
\* worker is spawned, protocol, running flag, thread, socket handles and
\* Connection Set keep their values, and no start event is logged (the call
\* returns at once, so no log line of it is pending either).
C1_StartWhileRunningIsNoop ==
    [][(is_running /\ \E p \in ProtocolArgs : Start(p))
          => /\ UNCHANGED <<routerVars, workers, lock, log, callerPc>>
             /\ ret'.res = "noop"]_vars

\* a start() was called on a Running Router whose worker is alive
C1_Witness ==
    /\ ret = Ret("start", "noop")
    /\ is_running
    /\ AliveWorkers # {}

\* C2: a stop() call made while the Router is Stopped changes nothing and
\* raises nothing, and every start()/stop() cycle leaves exactly one
\* "Router stopped." line however many stop() calls follow: between calls,
\* the stop lines are as many as the start lines of the cycles that ended.
C2_StopWhileStoppedIsNoop ==
    /\ [](callerPc = "idle" =>
            Count("stopped") = Count("started") - (IF is_running THEN 1 ELSE 0))
    /\ [][((~is_running) /\ Stop)
            => /\ UNCHANGED <<routerVars, workers, lock, log, callerPc>>
               /\ ret'.res = "noop"]_vars

\* start(), stop(), stop(): the second stop found the Router Stopped
C2_Witness ==
    /\ ret = Ret("stop", "noop")
    /\ calls = 3
    /\ Count("started") = 1
    /\ Count("stopped") = 1

\* C3: at every moment at most one worker thread of the Router is alive.
C3_AtMostOneWorkerAlive == Cardinality(AliveWorkers) <= 1

\* the lines worker w has logged since its last "Received:" line
LinesOfMessage(w) ==
    LET rcv  == {i \in 1..Len(log) : log[i].by = w /\ log[i].kind = "received"}
        last == IF rcv = {} THEN 0
                ELSE CHOOSE i \in rcv : \A j \in rcv : j <= i
        ByW(l) == l.by = w
    IN  SelectSeq(SubSeq(log, last + 1, Len(log)), ByW)

WasDelivered(e, text) ==
    \E d \in delivered : d.to = e /\ d.msg = Encode(text)

\* C4: while a worker forwards a message it has logged one line per
\* connection visited so far, "Forwarded to" with the message on the wire or
\* "Forward failed to"; a failed send leaves the worker in the loop with the
\* next connection due, and the loop is left only when every connection was
\* visited, towards the next accept / recvfrom.
C4_PartialFailureIsolation ==
    /\ [](\A w \in Workers : workers[w].pc = "forward" =>
            LET mine == LinesOfMessage(w) IN
            /\ Len(mine) = workers[w].idx
            /\ \A j \in 1..Len(mine) :
                /\ mine[j].ep = workers[w].conns[j]
                /\ mine[j].kind \in {"forwarded", "failed"}
                /\ mine[j].kind = "forwarded" =>
                       WasDelivered(mine[j].ep, workers[w].message))
    /\ [][\A w \in Workers :
            /\ (/\ Len(log') = Len(log) + 1
                /\ log'[Len(log')].by = w
                /\ log'[Len(log')].kind = "failed")
                  => /\ workers'[w].pc = "forward"
                     /\ workers'[w].idx = workers[w].idx + 1
            /\ (workers[w].pc = "forward" /\ workers'[w].pc # "forward")
                  => /\ workers[w].idx = Len(workers[w].conns)
                     /\ workers'[w].pc \in {"fin_lock", "recvfrom"}]_vars

\* two connections, the first unreachable: one "Forward failed" line, then
\* one "Forwarded to" line, and the second connection has the message
C4_Witness ==
    \E w \in Workers :
        /\ workers[w].pc = "forward"
        /\ Len(workers[w].conns) = 2
        /\ workers[w].idx = 2
        /\ LinesOfMessage(w)[1].kind = "failed"
        /\ LinesOfMessage(w)[2].kind = "forwarded"
        /\ WasDelivered(workers[w].conns[2], workers[w].message)

\* C5: the Connection Set contains no Endpoint twice.
C5_NoDuplicateConnections ==
    \A i, j \in 1..Len(connections) :
        i # j => connections[i] # connections[j]

\* C6: the Router's own listening Endpoint is not in its Connection Set.
C6_SelfNotInConnections == ~InSeq(endpoint, connections)

\* C7: add_connections logs exactly one warning line when some endpoint of
\* its argument is the Router's own endpoint or is already in the Connection
\* Set, and logs nothing otherwise; add_connections([own endpoint]) leaves
\* the Connection Set unchanged.
C7_AddWarnsOnce ==
    [][\A endpoints \in SeqsUpTo(Endpoints, MaxArgs) :
         AddConnections(endpoints) =>
           LET ignored == \E i \in 1..Len(endpoints) :
                             \/ endpoints[i] = endpoint
                             \/ InSeq(endpoints[i], connections)
           IN  /\ log' = IF ignored
                         THEN Append(log, LogLine(0, "warning", NoEndpoint,
                                                  <<>>, ""))
                         ELSE log
               /\ endpoints = <<endpoint>> => connections' = connections]_vars

\* add_connections([own endpoint]) has returned and its warning is the last
\* line of the log
C7_Witness ==
    /\ ret.op = "add_connections"
    /\ ret.arg = <<endpoint>>
    /\ Len(log) = 1
    /\ log[1].kind = "warning"

\* C8: no send of a forwarded message goes to an endpoint that is not in
\* the Connection Set at that moment, that is, to an endpoint that
\* remove_connections took out and add_connections did not put back.
C8_NoForwardAfterRemove ==
    [][\A w \in Workers :
         (\E ok \in BOOLEAN : Forward(w, ok)) =>
             InSeq(workers[w].conns[workers[w].idx + 1], connections)]_vars

\* C9: once stop() has returned, no worker sits in accept / recvfrom on a
\* listening socket that is still open or in recv on an accepted connection
\* that is still open: each blocking call has observed the closed handle.
C9_StopUnblocksWorker ==
    (callerPc = "idle" /\ ~is_running) =>
        \A w \in Workers :
            /\ ~(workers[w].pc \in {"accept", "recvfrom"}
                    /\ workers[w].server = "open")
            /\ ~(workers[w].pc = "recv" /\ workers[w].conn = "open")

\* C10: a stop() call on a Running Router returns, and when it returns the
\* Router is Stopped and the call has logged exactly one stop event: none
\* while it waits for the lock or the worker, one on its return; no other
\* step logs a stop event.
C10_StopReturns ==
    /\ (callerPc \in {"stop_lock", "stop_close", "stop_join"})
          ~> (callerPc = "idle" /\ ret.op = "stop" /\ ret.res = "ok")
    /\ [][IF callerPc \in {"stop_lock", "stop_close", "stop_join"}
             /\ callerPc' = "idle"
          THEN /\ ~is_running'
               /\ log' = Append(log, LogLine(0, "stopped", NoEndpoint, <<>>, ""))
          ELSE Count("stopped")' = Count("stopped")]_vars

\* stop() has returned although no connection was ever accepted, no traffic
\* ever arrived and the worker has not finished
C10_Witness ==
    /\ callerPc = "idle"
    /\ ret.op = "stop" /\ ret.res = "ok"
    /\ ~is_running
    /\ Count("stopped") = 1
    /\ arrived = 0
    /\ AliveWorkers # {}

\* C11: messages are handled one at a time: while one worker of the Router
\* is in the forwarding loop of a message, no other worker of the Router has
\* an inbound message in hand, neither a connection it accepted and reads
\* from, nor a message it has read and is about to log, nor one it forwards.
C11_OneMessageAtATime ==
    \A w, v \in Workers :
        (w # v /\ workers[w].pc = "forward") =>
            workers[v].pc \notin {"act_lock", "act_set", "recv", "received",
                                  "forward"}

\* worker w has in hand the inbound message m (on an accepted connection it
\* reads, or read and about to be logged), the second Router's endpoint is in
\* the Connection Set and the second Router serves there with w's protocol
RelayCase(w, m) ==
    /\ workload.peer
    /\ workers[w].pc \in {"act_lock", "act_set", "recv", "received"}
    /\ workers[w].sent = m
    /\ workers[w].proto = "TCP" => m # <<>>
    /\ InSeq(PeerEndpoint, connections)
    /\ PeerListens(workers[w].proto)

\* the Router has logged "Received: M" and later "Forwarded to" the second
\* Router, and the second Router has logged "Received: M", M the text of m
Relayed(w, m) ==
    /\ \E i, j \in 1..Len(log) :
          /\ i < j
          /\ log[i] = LogLine(w, "received", NoEndpoint, Decode(m), "")
          /\ log[j] = LogLine(w, "forwarded", PeerEndpoint, <<>>, "")
    /\ \E k \in 1..Len(peer.log) :
          peer.log[k] = LogLine(1, "received", NoEndpoint, Decode(m), "")

\* C12: when a message M reaches a Running Router A that has Router B's
\* endpoint in its Connection Set while B's serve loop listens on that
\* endpoint with A's protocol (TCP or UDP), A logs "Received: M" and then
\* "Forwarded to <B>", and B eventually logs "Received: M".
C12_EndToEndRelay ==
    \A m \in Messages : \A w \in Workers :
        RelayCase(w, m) ~> Relayed(w, m)

\* a two-chunk message went through A to B over TCP
C12_Witness ==
    /\ protocol = "TCP"
    /\ \E w \in Workers : Relayed(w, Payload(MaxChunks))

\* C13: a start(p) call on a Stopped Router with p neither 'TCP' nor 'UDP'
\* raises ValueError and changes nothing: the Router stays Stopped, no
\* worker is spawned, the recorded protocol is kept and nothing is logged.
\* With 'TCP' or 'UDP' it records p, sets the running flag and spawns one
\* worker, and before it returns it logs one start event naming the
\* endpoint and the protocol; no other step logs a start event.
C13_StartValidatesProtocol ==
    /\ [][\A p \in ProtocolArgs : ((~is_running) /\ Start(p)) =>
            IF p \in {"TCP", "UDP"}
            THEN /\ protocol' = p
                 /\ is_running'
                 /\ workers[thread'].pc = "unborn"
                 /\ \A w \in Workers :
                       (workers'[w].pc # workers[w].pc) <=> (w = thread')
                 /\ log' = log
                 /\ callerPc' = "start_log"
            ELSE /\ UNCHANGED <<routerVars, workers, lock, log, callerPc>>
                 /\ ret'.res = "ValueError"]_vars
    /\ [][IF callerPc = "start_log" /\ callerPc' # "start_log"
          THEN /\ log' = Append(log, LogLine(0, "started", endpoint, <<>>,
                                             protocol))
               /\ ret' = Ret("start", "ok")
          ELSE Count("started")' = Count("started")]_vars

\* start('SCTP') was called on a Router never started: it raised, and the
\* Router is as constructed
C13_Witness ==
    /\ ret = Ret("start", "ValueError")
    /\ ~is_running
    /\ protocol = ""
    /\ thread = 0
    /\ Spawned = 0
    /\ log = <<>>

\* C14: the message a worker logs as received and forwards is the text of
\* everything the sender transmitted on the connection (or in the datagram),
\* never of a prefix of it.
C14_MessageIsComplete ==
    \A w \in Workers :
        workers[w].pc \in {"received", "forward"} =>
            workers[w].message = Decode(workers[w].sent)

\* C15: a serve loop keeps the protocol and the listening Endpoint it was
\* started with for as long as its worker lives, and every send of its
\* forwarding loop uses that protocol.
C15_ServeLoopProtocolFixed ==
    [][\A w \in Workers :
         /\ (Alive(w) /\ workers[w].proto # "") =>
                workers'[w].proto = workers[w].proto
         /\ (Alive(w) /\ workers[w].ep # NoEndpoint) =>
                workers'[w].ep = workers[w].ep
         /\ (\E ok \in BOOLEAN : Forward(w, ok)) =>
                ForwardProtocol = workers[w].proto]_vars

\* C16: Endpoint(host, port) raises for a port outside 1..65535 and yields
\* no Endpoint, and two Endpoints made from the same host and the same valid
\* port are equal.
C16_EndpointPortChecked ==
    (helper.fn = "Endpoint" /\ helper.pc = "done") =>
        /\ helper.port \notin 1..65535 => helper.first.raised # ""
        /\ helper.port2 \notin 1..65535 => helper.second.raised # ""
        /\ (/\ helper.port \in 1..65535
            /\ helper.ip = helper.ip2
            /\ helper.port = helper.port2) => helper.equal

\* C17: when send_message(M, E, 'TCP') has returned and the
\* listen_for_message(E, 'TCP') call that accepted its connection has
\* returned, it returned exactly M, unless it was given a timeout and
\* returned None for it.
C17_RoundTrip ==
    (/\ helper.fn = "round_trip"
     /\ helper.sender = "done"
     /\ helper.listener = "done") =>
        /\ helper.returned[1] = "text" => helper.returned[2] = helper.text
        /\ ~helper.timed => helper.returned[1] = "text"

\* a text of two characters, five bytes, came back although it was read
\* in chunks that cut through a character
C17_Witness ==
    /\ helper.fn = "round_trip"
    /\ helper.sender = "done"
    /\ helper.listener = "done"
    /\ helper.text = <<"U+00E9", "U+FFFD">>
    /\ helper.chunks = <<<<"xC3">>, <<"xA9", "xEF">>, <<"xBF", "xBD">>>>
    /\ helper.returned = <<"text", helper.text>>

\* the parts of a text "[host:port] payload", surrounding whitespace
\* dropped, as the claim names them
HasOpen(t) == t # <<>> /\ Head(t) = "["
HasClose(t) == Find(t, "]") # 0
HeaderOf(t) == SubSeq(t, 2, Find(t, "]") - 1)
HasColon(t) == Find(HeaderOf(t), ":") # 0
HostOf(t) == SubSeq(HeaderOf(t), 1, Find(HeaderOf(t), ":") - 1)
PortOf(t) == SubSeq(HeaderOf(t), Find(HeaderOf(t), ":") + 1, Len(HeaderOf(t)))
PayloadOf(t) == LStrip(SubSeq(t, Find(t, "]") + 1, Len(t)))

\* C18: parse_message returns (host, port, payload), the payload's leading
\* whitespace trimmed, for a text of the form "[host:port] payload", and
\* raises for a text without leading '[', without ']', without ':' in the
\* header, with a port that is no integer, or without payload.
C18_ParseMessage ==
    (helper.fn = "parse_message" /\ helper.pc = "done") =>
        LET t == Strip(helper.text)
            r == helper.result
        IN  IF /\ HasOpen(t) /\ HasClose(t) /\ HasColon(t)
               /\ IsInt(PortOf(t))
               /\ PayloadOf(t) # <<>>
            THEN /\ r.raised = ""
                 /\ r.ip_address = Strip(HostOf(t))
                 /\ r.port = IntOf(Strip(PortOf(t)))
                 /\ r.payload = PayloadOf(t)
            ELSE r.raised # ""

\* the lines worker w has logged, in order
LinesBy(w) == LET ByW(l) == l.by = w IN SelectSeq(log, ByW)

\* C19: for each message the worker logs "Received: <message>" first and
\* then, visiting the list of connections in its order, exactly one line
\* ("Forwarded to" or "Forward failed to") per connection; the list visited
\* is the Connection Set as it was when the message was logged, and still is
\* unless remove_connections replaced it since; with an empty Connection Set
\* the "Received" line is the only line of the message.
C19_ReceivedThenForwards ==
    /\ [](\A w \in Workers : workers[w].pc = "forward" =>
            LET mine == LinesBy(w)
                n == Len(mine)
                k == workers[w].idx
            IN  /\ k <= Len(workers[w].conns)
                /\ n > k
                /\ mine[n - k].kind = "received"
                /\ mine[n - k].msg = workers[w].message
                /\ \A j \in 1..k :
                     /\ mine[n - k + j].kind \in {"forwarded", "failed"}
                     /\ mine[n - k + j].ep = workers[w].conns[j]
                /\ workers[w].live => workers[w].conns = connections)
    /\ [][\A w \in Workers :
            /\ (workers[w].pc = "received" /\ workers'[w].pc # "received")
                  => /\ log' = Append(log, LogLine(w, "received", NoEndpoint,
                                                   workers[w].message, ""))
                     /\ workers'[w].pc = "forward"
                     /\ workers'[w].idx = 0
                     /\ workers'[w].conns = connections
            /\ (workers[w].pc = "forward" /\ log' # log)
                  => /\ Len(log') = Len(log) + 1
                     /\ log'[Len(log')].by = w
                        => /\ workers[w].idx < Len(workers[w].conns)
                           /\ workers'[w].idx = workers[w].idx + 1
                           /\ log'[Len(log')].ep = workers[w].conns[workers'[w].idx]
            /\ (workers[w].pc = "forward" /\ workers'[w].pc # "forward")
                  => /\ workers[w].idx = Len(workers[w].conns)
                     /\ log' = log]_vars

\* a message was logged and then both connections were visited in the
\* order of the Connection Set, one line each, the first send failing
C19_Witness ==
    \E w \in Workers :
        /\ workers[w].pc = "forward"
        /\ connections = <<Endpoint(Host, 2), Endpoint(Host, 3)>>
        /\ workers[w].conns = connections
        /\ workers[w].idx = 2
        /\ workers[w].message # <<>>
        /\ LinesBy(w) =
              <<LogLine(w, "received", NoEndpoint, workers[w].message, ""),
                LogLine(w, "failed", Endpoint(Host, 2), <<>>, ""),
                LogLine(w, "forwarded", Endpoint(Host, 3), <<>>, "")>>

\* C20: when the read loop of the TCP serve loop ends with no byte read,
\* the worker logs no line and makes no send for that connection: it goes
\* to the finally of lines 209-216, which closes the accepted connection
\* and clears the active-connection handle, and from there back to accept.
C20_EmptyConnectionSkipped ==
    [][\A w \in Workers :
         /\ (/\ workers[w].pc \in {"recv", "fin_lock", "fin_close"}
             /\ workers[w].chunks = <<>>)
               => /\ log' # log => log'[Len(log')].by # w
                  /\ workers'[w] # workers[w] => delivered' = delivered
                  /\ workers'[w].pc \notin {"received", "forward"}
         /\ (/\ workers[w].pc = "recv"
             /\ workers[w].chunks = <<>>
             /\ workers'[w].pc # "recv") => workers'[w].pc = "fin_lock"
         /\ (workers[w].pc = "fin_lock" /\ workers'[w].pc # "fin_lock")
               => workers'[w].pc = "fin_close"
         /\ (workers[w].pc = "fin_close" /\ workers'[w].pc # "fin_close")
               => /\ workers'[w].pc = "accept"
                  /\ workers'[w].conn = "none"
                  /\ active_connection' = 0]_vars

\* a client connected and closed without sending; the worker is back in
\* accept with the connection closed, the handle cleared and no line logged
C20_Witness ==
    \E w \in Workers :
        /\ calls = 1
        /\ callerPc = "idle"
        /\ arrived = 1
        /\ workers[w].proto = "TCP"
        /\ workers[w].pc = "accept"
        /\ workers[w].server = "open"
        /\ workers[w].conn = "none"
        /\ active_connection = 0
        /\ lock = 0
        /\ LinesBy(w) = <<>>

RECURSIVE Without(_, _)
\* the sequence s with every element of the set S deleted
Without(s, S) ==
    IF s = <<>> THEN <<>>
    ELSE IF Head(s) \in S THEN Without(Tail(s), S)
    ELSE <<Head(s)>> \o Without(Tail(s), S)

Elements(s) == {s[i] : i \in 1..Len(s)}

\* C21: add_connections leaves the endpoints already in the Connection Set
\* where they are and appends, in the order of its argument, the endpoints
\* of the argument that are neither in the Connection Set nor the Router's
\* own; remove_connections leaves the Connection Set with the endpoints
\* equal to one of its argument deleted and the others in their order.
C21_MutatorsPreserveOrder ==
    [][\A endpoints \in SeqsUpTo(Endpoints, MaxArgs) :
         /\ AddConnections(endpoints) =>
               connections' = connections \o
                   Without(endpoints, Elements(connections) \cup {endpoint})
         /\ RemoveConnections(endpoints) =>
               connections' = Without(connections, Elements(endpoints))]_vars

\* add_connections([E2, E3]) on the Connection Set [E3]: E3 stays first and
\* E2 comes after it
C21_Witness ==
    /\ ret.op = "add_connections"
    /\ ret.arg = <<Endpoint(Host, 2), Endpoint(Host, 3)>>
    /\ connections = <<Endpoint(Host, 3), Endpoint(Host, 2)>>

\* C22: a worker holds the lock only inside one of its four locked
\* sections, never in accept, recv, recvfrom or a send of the forwarding
\* loop, and whoever holds the lock can take the step that releases it: the
\* caller in stop() waits for the lock only while a thread that is not
\* blocked holds it.
C22_LockNotHeldWhileBlocked ==
    /\ lock \in {0, -1} \cup Workers
    /\ lock = -1 => (callerPc = "stop_close" /\ ENABLED StopClose)
    /\ \A w \in Workers :
        /\ lock = w =>
              /\ workers[w].pc \in {"reg_set", "act_set", "fin_close", "cleanup"}
              /\ ENABLED (Register(w) \/ SetActive(w) \/ FinClose(w) \/ Cleanup(w))
        /\ workers[w].pc \in {"accept", "recv", "recvfrom", "received", "forward"}
              => lock # w
    /\ callerPc \notin {"stop_lock", "stop_close", "stop_join"}
          => lock # -1

\* stop() is inside its locked section while the worker is in a send of
\* its forwarding loop
C22_Witness ==
    /\ callerPc = "stop_close"
    /\ lock = -1
    /\ \E w \in Workers :
        /\ workers[w].pc = "forward"
        /\ workers[w].idx < Len(workers[w].conns)

\* the endpoints worker w has sent (or tried to send) its current message
\* to, in order, as its log lines tell
Visited(w) ==
    LET mine == LinesOfMessage(w)
    IN  [j \in 1..Len(mine) |-> mine[j].ep]

\* C23: the endpoints a worker forwards a message to are, in order, the
\* Connection Set of one instant of the handling of that message: the
\* endpoints visited so far are a prefix of one list, that list is the
\* Connection Set for as long as no remove_connections has run since the
\* message was logged, it is the Connection Set of the instant before the
\* first such remove_connections and stays as it is from then on, and the
\* loop ends when that whole list has been visited.
C23_SnapshotPerMessage ==
    /\ [](\A w \in Workers : workers[w].pc = "forward" =>
            /\ workers[w].idx <= Len(workers[w].conns)
            /\ Visited(w) = SubSeq(workers[w].conns, 1, workers[w].idx)
            /\ workers[w].live => workers[w].conns = connections)
    /\ [][\A w \in Workers :
            /\ (workers[w].pc = "forward" /\ ~workers'[w].live
                   /\ workers'[w].pc = "forward")
                  => workers'[w].conns = workers[w].conns
            /\ (workers[w].pc = "forward" /\ workers'[w].pc # "forward")
                  => Visited(w) = workers[w].conns]_vars

\* remove_connections([E2]) ran while the worker was forwarding over
\* [E2, E3]: the worker has visited E2 and E3, the Connection Set of the
\* instant before the call
C23_Witness ==
    \E w \in Workers :
        /\ workers[w].pc = "forward"
        /\ ~workers[w].live
        /\ ret.op = "remove_connections"
        /\ connections = <<Endpoint(Host, 3)>>
        /\ workers[w].idx = 2
        /\ Visited(w) = <<Endpoint(Host, 2), Endpoint(Host, 3)>>

\* C24: the cleanup of a worker (the finally of _worker and the finally of
\* a TCP connection) never closes or sets to None a handle that the serve
\* loop of a later start() installed: when it runs, server_socket and
\* _active_connection hold nothing or a handle of that worker or of an
\* earlier one.
C24_CleanupOwnHandlesOnly ==
    [][\A w \in Workers :
         /\ Cleanup(w) => (server_socket <= w /\ active_connection <= w)
         /\ FinClose(w) => active_connection <= w]_vars

\* C25: from the return of stop(), after its "Router stopped." line, until
\* the next start() starts the Router, no thread other than the caller logs
\* a line ("Received:", "Forwarded to", "Forward failed to" are the lines of
\* the workers) and no forwarded message is put on the wire.
C25_SilentAfterStop ==
    [][(/\ ~is_running
        /\ callerPc = "idle"
        /\ Count("stopped") > 0)
          => /\ log' # log => log'[Len(log')].by = 0
             /\ delivered' = delivered]_vars

\* C26: the RouterWidget's connection list and the Connection Set of its
\* Router hold the same endpoints, and an endpoint the widget has just
\* reported as added is in the Connection Set the Router forwards to.
C26_WidgetMatchesRouter ==
    widget.made =>
        /\ Elements(widget.connections) = Elements(connections)
        /\ widget.said.kind = "added" => InSeq(widget.said.eps[1], connections)

====
